---- MODULE Spec2Model ----
(***************************************************************************)
(* The preview-removal scripts of rg-Sens:                                 *)
(*   scripts/remove_all_previews.py        remove_preview_from_rust_file   *)
(*   scripts/remove_preview_draw_funcs.py  remove_draw_func_from_file      *)
(*   scripts/cleanup_unused.py             cleanup_file                    *)
(*                                                                         *)
(* A file's text is a sequence of tokens.  A token is a literal piece of   *)
(* text: a whitespace piece, a delimiter, an identifier, or one of the     *)
(* fixed texts the scripts search for.  Tokens are opaque: a regular       *)
(* expression matches whole tokens only, and what a token contains (its    *)
(* parentheses, a ';', the substring 'DrawingArea', ...) is given by the   *)
(* tables below.  Indices are 1-based: line i of the model is the source's *)
(* lines[i-1].                                                             *)
(***************************************************************************)
EXTENDS Integers, Sequences, FiniteSets, TLC

\* ------------------------------------------------------------------ tokens
NL == "\n"
IND == "    "
SP == " "

OPENER == "preview.set_draw_func(move |"
DRAWCALL == "preview.set_draw_func("
SETUP == "preview.set_content_height("
CHECKERBOARD == "use crate::ui::render_utils::render_checkerboard;"
CONFIG_CLONE == "let config_clone = config.clone();"
THEME_CLONE == "let theme_clone = theme.clone();"
CONFIG_FOR_PREVIEW == "let config_for_preview = config.clone();"
THEME_FOR_PREVIEW == "let theme_for_preview = theme.clone();"
PREVIEW_CLONE == "let preview_clone = preview.clone();"
PREVIEW_CLONE_SELF == "let preview_clone = self.preview.clone();"
PREVIEW_FOR_PASTE == "let preview_for_paste = preview.clone();"
APPEND == "page.append(&preview);"
DA_EXT == "prelude::DrawingAreaExtManual"

\* str.isspace of the token's text
IsSpace(t) == t \in {NL, IND, SP}

\* str.count('(') and str.count(')') of one token
NOpenParen(t) ==
    IF t \in {"(", OPENER, DRAWCALL, SETUP, "::new();", CONFIG_CLONE, THEME_CLONE,
              CONFIG_FOR_PREVIEW, THEME_FOR_PREVIEW, PREVIEW_CLONE,
              PREVIEW_CLONE_SELF, PREVIEW_FOR_PASTE, APPEND,
              "preview.queue_draw();", "preview_clone.queue_draw();",
              "self.preview.queue_draw();", "preview.clone()"}
    THEN 1 ELSE 0

NCloseParen(t) ==
    IF t \in {")", "::new();", CONFIG_CLONE, THEME_CLONE,
              CONFIG_FOR_PREVIEW, THEME_FOR_PREVIEW, PREVIEW_CLONE,
              PREVIEW_CLONE_SELF, PREVIEW_FOR_PASTE, APPEND,
              "preview.queue_draw();", "preview_clone.queue_draw();",
              "self.preview.queue_draw();", "preview.clone()"}
    THEN 1 ELSE 0

\* str.count('{') and str.count('}') of one token
NOpenBrace(t) == IF t = "{" THEN 1 ELSE 0
NCloseBrace(t) == IF t = "}" THEN 1 ELSE 0

\* the token's text contains ';'
HasSemi(t) ==
    t \in {";", "::new();", CHECKERBOARD, CONFIG_CLONE, THEME_CLONE,
           CONFIG_FOR_PREVIEW, THEME_FOR_PREVIEW, PREVIEW_CLONE,
           PREVIEW_CLONE_SELF, PREVIEW_FOR_PASTE, APPEND,
           "preview.queue_draw();", "preview_clone.queue_draw();",
           "self.preview.queue_draw();"}

\* the token's text contains the substring 'DrawingArea'
HasDrawingArea(t) == t \in {"DrawingArea", "&DrawingArea", DA_EXT}

\* the token's text contains the substring 'preview.set_draw_func'
HasSetDrawFunc(t) == t \in {OPENER, DRAWCALL}

\* the token's text contains the substring 'preview.set_draw_func(move |'
HasOpener(t) == t = OPENER

\* the token's first / last character is a word character (\w)
FirstIsWord(t) ==
    ~IsSpace(t) /\ t \notin {"(", ")", "{", "}", ",", ";", "//", "::new();",
                             "&preview", "&DrawingArea", "&self.preview"}
LastIsWord(t) ==
    ~IsSpace(t) /\ ~HasSemi(t)
    /\ t \notin {"(", ")", "{", "}", ",", "//", "gtk4::", "crate::ui::", "preview:",
                 OPENER, DRAWCALL, SETUP, "let preview = ", "preview.clone()"}

\* ------------------------------------------------------- sequence helpers
Range(s) == {s[k] : k \in 1..Len(s)}

RECURSIVE Concat(_)
\* ''.join(lines)
Concat(ls) == IF ls = <<>> THEN <<>> ELSE Head(ls) \o Concat(Tail(ls))

RECURSIVE SumOver(_, _, _)
SumOver(F(_), s, k) == IF k > Len(s) THEN 0 ELSE F(s[k]) + SumOver(F, s, k + 1)

\* line.count('(') - line.count(')') and line.count('{') - line.count('}')
ParenBalance(line) == SumOver(NOpenParen, line, 1) - SumOver(NCloseParen, line, 1)
BraceBalance(line) == SumOver(NOpenBrace, line, 1) - SumOver(NCloseBrace, line, 1)

RECURSIVE SkipWs(_, _)
\* the first index >= i whose token is not whitespace (greedy \s*)
SkipWs(s, i) == IF i <= Len(s) /\ IsSpace(s[i]) THEN SkipWs(s, i + 1) ELSE i

RECURSIVE SkipWsBack(_, _)
SkipWsBack(s, i) == IF i >= 1 /\ IsSpace(s[i]) THEN SkipWsBack(s, i - 1) ELSE i

\* str.strip()
Strip(s) ==
    LET a == SkipWs(s, 1)
        b == SkipWsBack(s, Len(s))
    IN  IF a > b THEN <<>> ELSE SubSeq(s, a, b)

\* line.strip() == ''
IsBlank(line) == Strip(line) = <<>>

\* needle in text, for a needle that is a sequence of whole tokens
ContainsSeq(s, needle) ==
    \E k \in 1..Len(s) :
        k + Len(needle) - 1 <= Len(s) /\ SubSeq(s, k, k + Len(needle) - 1) = needle

RECURSIVE SplitLines(_, _)
\* f.readlines(): every line keeps its '\n'; the last one may have none
SplitLines(s, cur) ==
    IF s = <<>> THEN (IF cur = <<>> THEN <<>> ELSE <<cur>>)
    ELSE IF Head(s) = NL THEN <<Append(cur, NL)>> \o SplitLines(Tail(s), <<>>)
    ELSE SplitLines(Tail(s), Append(cur, Head(s)))

readlines(text) == SplitLines(text, <<>>)

\* --------------------------------------------------- regular expressions
(* A pattern is a sequence of elements [k, s]:                             *)
(*   "t"   one token of the set s          "t?"  at most one token of s    *)
(*   "t+"  one or more tokens of s, greedy                                 *)
(*   "ws*" \s*        "ws+" \s+            "b"   \b                        *)
(*   "la"  (?=\s*[s]) "la0" (?=s)          "eol" $                         *)
T(S) == [k |-> "t", s |-> S]
Opt(S) == [k |-> "t?", s |-> S]
Plus(S) == [k |-> "t+", s |-> S]
Ws0 == [k |-> "ws*", s |-> {}]
Ws1 == [k |-> "ws+", s |-> {}]
B == [k |-> "b", s |-> {}]
La(S) == [k |-> "la", s |-> S]
La0(S) == [k |-> "la0", s |-> S]
Eol == [k |-> "eol", s |-> {}]

RECURSIVE SkipSet(_, _, _)
SkipSet(s, i, S) == IF i <= Len(s) /\ s[i] \in S THEN SkipSet(s, i + 1, S) ELSE i

\* \b between s[i-1] and s[i]
Boundary(s, i) ==
    LET before == i >= 2 /\ i - 1 <= Len(s) /\ LastIsWord(s[i - 1])
        after == i >= 1 /\ i <= Len(s) /\ FirstIsWord(s[i])
    IN  before # after

RECURSIVE MatchEnd(_, _, _, _)
\* the index after the match of pat[j..] at s[i..], or 0 when there is none
MatchEnd(s, i, pat, j) ==
    IF j > Len(pat) THEN i
    ELSE LET e == pat[j] IN
      CASE e.k = "t" ->
             IF i <= Len(s) /\ s[i] \in e.s THEN MatchEnd(s, i + 1, pat, j + 1) ELSE 0
        [] e.k = "t?" ->
             IF i <= Len(s) /\ s[i] \in e.s /\ MatchEnd(s, i + 1, pat, j + 1) # 0
             THEN MatchEnd(s, i + 1, pat, j + 1)
             ELSE MatchEnd(s, i, pat, j + 1)
        [] e.k = "t+" ->
             IF i <= Len(s) /\ s[i] \in e.s
             THEN MatchEnd(s, SkipSet(s, i, e.s), pat, j + 1) ELSE 0
        [] e.k = "ws*" -> MatchEnd(s, SkipWs(s, i), pat, j + 1)
        [] e.k = "ws+" ->
             IF i <= Len(s) /\ IsSpace(s[i])
             THEN MatchEnd(s, SkipWs(s, i), pat, j + 1) ELSE 0
        [] e.k = "b" -> IF Boundary(s, i) THEN MatchEnd(s, i, pat, j + 1) ELSE 0
        [] e.k = "la" ->
             LET n == SkipWs(s, i) IN
             IF n <= Len(s) /\ s[n] \in e.s THEN MatchEnd(s, i, pat, j + 1) ELSE 0
        [] e.k = "la0" ->
             IF i <= Len(s) /\ s[i] \in e.s THEN MatchEnd(s, i, pat, j + 1) ELSE 0
        [] e.k = "eol" ->
             IF i > Len(s) \/ (i = Len(s) /\ s[i] = NL)
             THEN MatchEnd(s, i, pat, j + 1) ELSE 0

\* re.match(pat, s): anchored at the start of s
re_match(pat, s) == MatchEnd(s, 1, pat, 1) # 0

RECURSIVE SubFrom(_, _, _, _)
SubFrom(pat, repl, s, i) ==
    IF i > Len(s) THEN <<>>
    ELSE LET e == MatchEnd(s, i, pat, 1) IN
         IF e > i THEN repl \o SubFrom(pat, repl, s, e)
         ELSE <<s[i]>> \o SubFrom(pat, repl, s, i + 1)

\* re.sub(pat, repl, s): every leftmost non-overlapping match replaced
re_sub(pat, repl, s) == SubFrom(pat, repl, s, 1)

\* ---------------------------------------------------------------- state
VARIABLES
    script,            \* which script's transform runs
    filepath,          \* the file's path
    disk,              \* the file's content on disk
    run,               \* 1: first run on the file, 2: the run on its own output
    pc,                \* the transform's position
    original,          \* original_lines / original: the content as read
    lines,             \* lines
    i,                 \* the line loop's index (1-based)
    in_set_draw_func,  \* in_set_draw_func
    paren_count,       \* paren_count
    brace_count,       \* brace_count
    lines_to_remove,   \* lines_to_remove (1-based indices)
    changes,           \* changes
    new_lines,         \* new_lines
    result_lines,      \* result_lines
    content,           \* content
    ret,               \* the returned (modified, changes)
    writes,            \* number of f.write calls of this run
    first_out,         \* history: the disk content after the first run
    opened_at,         \* history: the line at which the tracker last went Idle -> InBlock
    in_preview_block,  \* in_preview_block of remove_preview_widgets
    queue,             \* main: the paths the loop has still to visit
    fs,                \* main: the files of the batch, by path
    fs0,               \* history: the files of the batch when main started
    out,               \* main: what has been printed
    total_modified,    \* main: total_modified
    io                 \* history: the reads and writes of the file being processed

\* the state of main() and of remove_preview_widgets' block logic
main_vars == <<in_preview_block, queue, fs, fs0, out, total_modified>>

vars == <<script, filepath, disk, run, pc, original, lines, i, in_set_draw_func,
          paren_count, brace_count, lines_to_remove, changes, new_lines,
          result_lines, content, ret, writes, first_out, opened_at, main_vars, io>>

ALL_PREVIEWS == "remove_all_previews"
DRAW_FUNCS == "remove_preview_draw_funcs"
CLEANUP == "cleanup_unused"

\* block closing test of both trackers
BlockClosed(p, b) == p <= 0 /\ b <= 0

\* for render_fn in [...]: the watch-list of both pruners
render_fns ==
    <<"render_bar", "render_arc", "render_speedometer", "render_core_bars",
      "render_lcars_frame", "render_synthwave_frame", "render_cyberpunk_frame",
      "render_material_frame", "render_industrial_frame",
      "render_retro_terminal_frame", "render_fighter_hud_frame",
      "render_art_deco_frame", "render_art_nouveau_frame",
      "render_steampunk_frame", "render_indicator">>

\* ------------------------------------------- remove_all_previews: line loop
\* the six substitutions of the DrawingArea import surgery
import_surgery(line) ==
    LET s1 == re_sub(<<T({","}), Ws0, T({"DrawingArea"}), B>>, <<>>, line)
        s2 == re_sub(<<B, T({"DrawingArea"}), Ws0, T({","}), Ws0>>, <<>>, s1)
        s3 == re_sub(<<B, T({"DrawingArea"}), B>>, <<>>, s2)
        s4 == re_sub(<<T({"{"}), Ws0, T({","})>>, <<"{">>, s3)
        s5 == re_sub(<<T({","}), Ws0, T({"}"})>>, <<"}">>, s4)
    IN  re_sub(<<T({"{"}), Ws0, T({"}"})>>, <<>>, s5)

\* 'use gtk4::' in line and 'DrawingArea' in line
is_gtk_import(line) ==
    /\ ContainsSeq(line, <<"use", SP, "gtk4::">>)
    /\ \E k \in 1..Len(line) : HasDrawingArea(line[k])

\* new_line.strip() == 'use gtk4::;' or new_line.strip() == 'use gtk4::{};'
is_empty_import(new_line) ==
    Strip(new_line) \in {<<"use", SP, "gtk4::", ";">>,
                         <<"use", SP, "gtk4::", "{", "}", ";">>}

is_checkerboard(line) == \E k \in 1..Len(line) : line[k] = CHECKERBOARD

\* re.match(r'\s+preview:\s*DrawingArea,', line)
is_field(line) ==
    re_match(<<Ws1, T({"preview:"}), Ws0, T({"DrawingArea"}), T({","})>>, line)

\* the two patterns tried on stripped, both starting with \s+
is_self_ctor(stripped) ==
    \/ re_match(<<Ws1, T({"preview"}), Opt({","}), Ws0, Eol>>, stripped)
    \/ re_match(<<Ws1, T({"preview:"}), Ws0, T({"preview"}), Opt({","}), Ws0, Eol>>,
                stripped)

\* re.match(r'\s+let preview = DrawingArea::new\(\);', line)
is_creation(line) ==
    re_match(<<Ws1, T({"let preview = "}), T({"DrawingArea"}), T({"::new();"})>>, line)

\* re.match(r'\s+preview\.set_(content_height|...)\(', line)
is_setup(line) ==
    re_match(<<Ws1, T({SETUP, "preview.set_content_width(", "preview.set_hexpand(",
                       "preview.set_vexpand(", "preview.set_halign(",
                       "preview.set_valign("})>>, line)

\* 'preview.set_draw_func(move |' in line
is_opener(line) == \E k \in 1..Len(line) : HasOpener(line[k])

is_append(line) == re_match(<<Ws1, T({APPEND})>>, line)

is_queue_draw(line) ==
    re_match(<<Ws1, T({"preview.queue_draw();", "preview_clone.queue_draw();",
                       "self.preview.queue_draw();"})>>, line)

is_preview_clone(line) == re_match(<<Ws1, T({PREVIEW_CLONE, PREVIEW_CLONE_SELF})>>, line)

is_preview_for_paste(line) == re_match(<<Ws1, T({PREVIEW_FOR_PASTE})>>, line)

\* re.match(r'\s+let (config_clone|theme_clone) = (config|theme)\.clone\(\);', line)
is_clone_binding(line) == re_match(<<Ws1, T({CONFIG_CLONE, THEME_CLONE})>>, line)

RECURSIVE next_is_draw_func(_, _, _)
\* for j in range(i + 1, min(i + 5, len(lines))): the first non-empty line decides
next_is_draw_func(ls, j, last) ==
    IF j > last THEN FALSE
    ELSE IF ~IsBlank(ls[j]) THEN \E k \in 1..Len(ls[j]) : HasSetDrawFunc(ls[j][k])
    ELSE next_is_draw_func(ls, j + 1, last)

Min(a, b) == IF a < b THEN a ELSE b

(* One iteration of the loop over lines: what it does to line k in tracker *)
(* state (inb, p, b).  remove: k joins lines_to_remove; line: lines[k]     *)
(* afterwards; change: what is appended to changes.                        *)
all_previews_line(ls, k, inb, p, b) ==
    LET line == ls[k]
        same == [in |-> inb, paren |-> p, brace |-> b, remove |-> FALSE,
                 line |-> line, change |-> <<>>, opens |-> FALSE]
        drop(msg) == [same EXCEPT !.remove = TRUE, !.change = msg]
    IN
    IF is_gtk_import(line) THEN
        LET new_line == import_surgery(line) IN
        IF is_empty_import(new_line)
        THEN drop(<<"Removed DrawingArea import">>)
        ELSE [same EXCEPT !.line = new_line,
                          !.change = <<"Removed DrawingArea import">>]
    ELSE IF is_checkerboard(line) THEN drop(<<"Removed render_checkerboard import">>)
    ELSE IF is_field(line) THEN drop(<<"Removed preview field from struct">>)
    ELSE IF is_self_ctor(Strip(line)) THEN drop(<<"Removed preview from Self constructor">>)
    ELSE IF is_creation(line) THEN drop(<<"Removed preview creation">>)
    ELSE IF is_setup(line) THEN drop(<<>>)
    ELSE IF is_opener(line) THEN
        [same EXCEPT !.in = TRUE, !.paren = ParenBalance(line),
                     !.brace = BraceBalance(line), !.remove = TRUE,
                     !.change = <<"Removed set_draw_func block">>, !.opens = TRUE]
    ELSE IF inb THEN
        LET p2 == p + ParenBalance(line)
            b2 == b + BraceBalance(line)
        IN  [same EXCEPT !.paren = p2, !.brace = b2, !.remove = TRUE,
                         !.in = ~BlockClosed(p2, b2)]
    ELSE IF is_append(line) THEN drop(<<"Removed preview append">>)
    ELSE IF is_queue_draw(line) THEN drop(<<"Removed preview.queue_draw()">>)
    ELSE IF is_preview_clone(line) THEN drop(<<"Removed preview_clone declaration">>)
    ELSE IF is_preview_for_paste(line) THEN drop(<<"Removed preview_for_paste declaration">>)
    ELSE IF is_clone_binding(line) THEN
        [same EXCEPT !.remove = next_is_draw_func(ls, k + 1, Min(k + 4, Len(ls)))]
    ELSE same

\* ------------------------------------- remove_all_previews: later passes
\* the eight substitutions applied to every surviving line
rewrite_line(line) ==
    LET ends == {",", ")"}
        r1 == re_sub(<<T({","}), Ws0, T({"preview:"}), Ws0, T({"&DrawingArea"}), B>>,
                     <<>>, line)
        r2 == re_sub(<<B, T({"preview:"}), Ws0, T({"&DrawingArea"}), T({","}), Ws0>>,
                     <<>>, r1)
        r3 == re_sub(<<T({","}), Ws0, T({"&preview"}), B, La(ends)>>, <<>>, r2)
        r4 == re_sub(<<T({"&preview"}), T({","}), Ws0>>, <<>>, r3)
        r5 == re_sub(<<T({","}), Ws0, T({"preview.clone()"}), La(ends)>>, <<>>, r4)
        r6 == re_sub(<<T({"preview.clone()"}), T({","}), Ws0>>, <<>>, r5)
        r7 == re_sub(<<T({","}), Ws0, T({"&self.preview"}), B, La(ends)>>, <<>>, r6)
    IN  re_sub(<<T({"&self.preview"}), T({","}), Ws0>>, <<>>, r7)

RECURSIVE rewrite_lines(_, _, _)
\* the second loop: lines in lines_to_remove are skipped, the others rewritten
rewrite_lines(ls, removed, k) ==
    IF k > Len(ls) THEN <<>>
    ELSE IF k \in removed THEN rewrite_lines(ls, removed, k + 1)
    ELSE <<rewrite_line(ls[k])>> \o rewrite_lines(ls, removed, k + 1)

RECURSIVE collapse_blank_lines(_, _)
\* the third loop: a blank line that follows a blank line is skipped
collapse_blank_lines(ls, prev_blank) ==
    IF ls = <<>> THEN <<>>
    ELSE LET is_blank == IsBlank(Head(ls)) IN
         IF is_blank /\ prev_blank THEN collapse_blank_lines(Tail(ls), prev_blank)
         ELSE <<Head(ls)>> \o collapse_blank_lines(Tail(ls), is_blank)

\* ------------------------------------------------- unused-import pruning
\* len(re.finditer(rf'\b{render_fn}\b', content))
IsWordAt(s, k, sym) == s[k] = sym /\ Boundary(s, k) /\ Boundary(s, k + 1)

all_matches(s, sym) == Cardinality({k \in 1..Len(s) : IsWordAt(s, k, sym)})

\* the token's text ends with 'use'
EndsWithUse(t) == t = "use"

RECURSIVE FirstSemi(_, _)
FirstSemi(s, k) == IF k > Len(s) \/ HasSemi(s[k]) THEN k ELSE FirstSemi(s, k + 1)

\* where a match of use\s+[^;]*\b{sym}\b that starts at k ends, or 0
ImportMatchEnd(s, k, sym) ==
    IF ~(EndsWithUse(s[k]) /\ k + 1 <= Len(s) /\ IsSpace(s[k + 1])) THEN 0
    ELSE LET from == SkipWs(s, k + 1)
             hits == {q \in from..(FirstSemi(s, from) - 1) : IsWordAt(s, q, sym)}
         IN  IF hits = {} THEN 0
             ELSE (CHOOSE q \in hits : \A r \in hits : r <= q) + 1

RECURSIVE import_matches_from(_, _, _)
import_matches_from(s, k, sym) ==
    IF k > Len(s) THEN 0
    ELSE LET e == ImportMatchEnd(s, k, sym) IN
         IF e # 0 THEN 1 + import_matches_from(s, e, sym)
         ELSE import_matches_from(s, k + 1, sym)

\* len(re.finditer(rf'use\s+[^;]*\b{render_fn}\b', content))
import_matches(s, sym) == import_matches_from(s, 1, sym)

\* if len(all_matches) > 0 and len(all_matches) == len(import_matches)
import_only(s, sym) == all_matches(s, sym) > 0 /\ all_matches(s, sym) = import_matches(s, sym)

\* the two substitutions that delete the import entry
remove_import(s, sym) ==
    LET a == re_sub(<<T({","}), Ws0, T({sym}), B>>, <<>>, s)
    IN  re_sub(<<B, T({sym}), Ws0, T({","}), Ws0>>, <<>>, a)

RECURSIVE prune_imports(_, _, _)
\* the loop over render_fns, on [content, changes]
prune_imports(fns, k, st) ==
    IF k > Len(fns) THEN st
    ELSE IF import_only(st.content, fns[k]) THEN
        LET c == remove_import(st.content, fns[k]) IN
        prune_imports(fns, k + 1,
            [content |-> c,
             changes |-> IF c # st.content
                         THEN Append(st.changes, "Removed unused " \o fns[k] \o " import")
                         ELSE st.changes])
    ELSE prune_imports(fns, k + 1, st)

\* ------------------------------------------------------------ write-back
\* the comparison left out: the file is rewritten on every run
differs_always(new, old) == TRUE

\* if content != original_content
differs(new, old) == new # old

\* -------------------------------------- remove_preview_draw_funcs: passes
\* while j >= 0 and j >= i - 3
LookbackWindow == 3

RECURSIVE lookback(_, _, _, _)
\* the backward scan from the opener at line k: the bindings it removes
lookback(ls, j, k, acc) ==
    IF j < 1 \/ j < k - LookbackWindow THEN acc
    ELSE LET prev_line == Strip(ls[j]) IN
         IF prev_line = <<>> THEN lookback(ls, j - 1, k, acc)
         ELSE IF re_match(<<T({CONFIG_CLONE})>>, prev_line)
                 \/ re_match(<<T({THEME_CLONE})>>, prev_line)
              THEN lookback(ls, j - 1, k, acc \cup {j})
              ELSE acc

(* The loop's iteration with lines_to_remove.add(i) missing from the       *)
(* opener branch.                                                          *)
draw_funcs_line_opener_kept(ls, k, inb, p, b) ==
    LET line == ls[k] IN
    IF is_opener(line) THEN
        [in |-> TRUE, paren |-> ParenBalance(line), brace |-> BraceBalance(line),
         remove |-> lookback(ls, k - 1, k, {}),
         change |-> <<"Removed set_draw_func block">>]
    ELSE IF inb THEN
        LET p2 == p + ParenBalance(line)
            b2 == b + BraceBalance(line)
        IN  [in |-> ~BlockClosed(p2, b2), paren |-> p2, brace |-> b2,
             remove |-> {k}, change |-> <<>>]
    ELSE [in |-> inb, paren |-> p, brace |-> b, remove |-> {}, change |-> <<>>]

(* One iteration of the loop over lines.  remove: the indices that join    *)
(* lines_to_remove; change: what is appended to changes.                   *)
draw_funcs_line(ls, k, inb, p, b) ==
    LET line == ls[k] IN
    IF is_opener(line) THEN
        [in |-> TRUE, paren |-> ParenBalance(line), brace |-> BraceBalance(line),
         remove |-> {k} \cup lookback(ls, k - 1, k, {}),
         change |-> <<"Removed set_draw_func block">>]
    ELSE IF inb THEN
        LET p2 == p + ParenBalance(line)
            b2 == b + BraceBalance(line)
        IN  [in |-> ~BlockClosed(p2, b2), paren |-> p2, brace |-> b2,
             remove |-> {k}, change |-> <<>>]
    ELSE [in |-> inb, paren |-> p, brace |-> b, remove |-> {}, change |-> <<>>]

RECURSIVE keep_lines(_, _, _)
\* [line for i, line in enumerate(lines) if i not in lines_to_remove]
keep_lines(ls, removed, k) ==
    IF k > Len(ls) THEN <<>>
    ELSE IF k \in removed THEN keep_lines(ls, removed, k + 1)
    ELSE <<ls[k]>> \o keep_lines(ls, removed, k + 1)

\* re.sub(r'use crate::ui::render_utils::render_checkerboard;\n', '', content)
remove_checkerboard(s) == re_sub(<<T({CHECKERBOARD}), T({NL})>>, <<>>, s)

\* re.sub(r'\n\n\n+', '\n\n', content)
collapse_newlines(s) == re_sub(<<T({NL}), T({NL}), Plus({NL})>>, <<NL, NL>>, s)

\* --------------------------------------------------- cleanup_unused: passes
\* patterns: (regular expression, replacement, message), in order
patterns ==
    <<[tok |-> CONFIG_CLONE, msg |-> "Removed unused config_clone"],
      [tok |-> THEME_CLONE, msg |-> "Removed unused theme_clone"],
      [tok |-> CONFIG_FOR_PREVIEW, msg |-> "Removed unused config_for_preview"],
      [tok |-> THEME_FOR_PREVIEW, msg |-> "Removed unused theme_for_preview"]>>

\* re.sub(r'\n\s+let ... = ...\.clone\(\);(?=\n)', '', content)
remove_binding(s, tok) == re_sub(<<T({NL}), Ws1, T({tok}), La0({NL})>>, <<>>, s)

RECURSIVE apply_patterns(_, _, _)
\* the loop over patterns, on [content, changes]
apply_patterns(ps, k, st) ==
    IF k > Len(ps) THEN st
    ELSE LET c == remove_binding(st.content, ps[k].tok) IN
         apply_patterns(ps, k + 1,
            [content |-> c,
             changes |-> IF c # st.content THEN Append(st.changes, ps[k].msg)
                         ELSE st.changes])

SPEEDOMETER_PATH == "src/ui/speedometer_config_widget.rs"
LCARS_PATH == "src/ui/lcars_config_widget.rs"
BAR_PATH == "src/ui/bar_config_widget.rs"

\* re.sub(r'render_speedometer_with_theme,\s*', '', content) and its lcars twin
strip_named_import(s, sym) == re_sub(<<T({sym}), T({","}), Ws0>>, <<>>, s)

\* the two file-specific import removals, on [content, changes]
file_imports(path, st) ==
    LET a == IF path = SPEEDOMETER_PATH
             THEN strip_named_import(st.content, "render_speedometer_with_theme")
             ELSE st.content
        ca == IF a # st.content
              THEN Append(st.changes, "Removed unused render_speedometer_with_theme import")
              ELSE st.changes
        b == IF path = LCARS_PATH
             THEN strip_named_import(a, "render_content_background")
             ELSE a
        cb == IF b # a
              THEN Append(ca, "Removed unused render_content_background import")
              ELSE ca
    IN  [content |-> b, changes |-> cb]

\* ------------------------------------------ remove_preview_widgets: passes
WIDGETS == "remove_preview_widgets"

\* the token's text contains 'preview.set_'
HasPreviewSet(t) ==
    t \in {OPENER, DRAWCALL, SETUP, "preview.set_content_width(", "preview.set_hexpand(",
           "preview.set_vexpand(", "preview.set_halign(", "preview.set_valign("}

\* the token's text contains 'preview.clone()'
HasPreviewDotClone(t) ==
    t \in {PREVIEW_CLONE, PREVIEW_CLONE_SELF, PREVIEW_FOR_PASTE, "preview.clone()"}

\* the token's text contains 'preview_for_' (and then 'let preview_for_' as well)
HasPreviewFor(t) == t = PREVIEW_FOR_PASTE

\* the token's text contains '.queue_draw()' (and then '.queue_draw();' as well)
HasQueueDraw(t) ==
    t \in {"preview.queue_draw();", "preview_clone.queue_draw();",
           "self.preview.queue_draw();"}

\* the token's text contains 'preview.queue_draw()'
HasPreviewQueueDraw(t) == t \in {"preview.queue_draw();", "self.preview.queue_draw();"}

\* the token's text starts with 'preview'
StartsWithPreview(t) ==
    HasPreviewSet(t) \/ t \in {"preview", "preview:", "preview.clone()",
                               "preview.queue_draw();", "preview_clone.queue_draw();"}

\* what follows 'preview' in a token that starts with it
AfterPreview(t) ==
    CASE t = "preview" -> <<>>
      [] t = "preview:" -> <<":">>
      [] t = "preview.clone()" -> <<".clone()">>
      [] t = "preview.queue_draw();" -> <<".queue_draw();">>
      [] t = "preview_clone.queue_draw();" -> <<"_clone.queue_draw();">>
      [] t = OPENER -> <<".set_draw_func(move |">>
      [] t = DRAWCALL -> <<".set_draw_func(">>
      [] t = SETUP -> <<".set_content_height(">>
      [] t = "preview.set_content_width(" -> <<".set_content_width(">>
      [] t = "preview.set_hexpand(" -> <<".set_hexpand(">>
      [] t = "preview.set_vexpand(" -> <<".set_vexpand(">>
      [] t = "preview.set_halign(" -> <<".set_halign(">>
      [] t = "preview.set_valign(" -> <<".set_valign(">>

\* the token's text ends with 'preview', and what precedes it
EndsWithPreview(t) == t \in {"preview", "&preview", "&self.preview"}
BeforePreview(t) ==
    CASE t = "preview" -> <<>>
      [] t = "&preview" -> <<"&">>
      [] t = "&self.preview" -> <<"&self.">>

\* the token's text ends with '('
EndsWithOpenParen(t) ==
    t = "(" \/ (HasPreviewSet(t) /\ t # OPENER)
    \/ t \in {".set_draw_func(", ".set_content_height(", ".set_content_width(",
              ".set_hexpand(", ".set_vexpand(", ".set_halign(", ".set_valign(",
              "SpinChangeHandler::new("}

\* the token's text ends with ';'
EndsWithSemi(t) == HasSemi(t) \/ t \in {".queue_draw();", "_clone.queue_draw();"}

RECURSIVE SplitNL(_, _)
\* content.split('\n')
SplitNL(s, cur) ==
    IF s = <<>> THEN <<cur>>
    ELSE IF Head(s) = NL THEN <<cur>> \o SplitNL(Tail(s), <<>>)
    ELSE SplitNL(Tail(s), Append(cur, Head(s)))

RECURSIVE JoinNL(_)
\* '\n'.join(new_lines)
JoinNL(ls) ==
    IF ls = <<>> THEN <<>>
    ELSE IF Len(ls) = 1 THEN Head(ls)
    ELSE Head(ls) \o <<NL>> \o JoinNL(Tail(ls))

\* re.sub(r'\s*preview: DrawingArea,\n', '\n', content)
remove_field(s) ==
    re_sub(<<Ws0, T({"preview:"}), T({SP}), T({"DrawingArea"}), T({","}), T({NL})>>,
           <<NL>>, s)

\* line.replace('preview_clone.queue_draw();', '')
RECURSIVE replace_queue_draw(_)
replace_queue_draw(line) ==
    IF line = <<>> THEN <<>>
    ELSE IF Head(line) = "preview_clone.queue_draw();" THEN replace_queue_draw(Tail(line))
    ELSE <<Head(line)>> \o replace_queue_draw(Tail(line))

Some(line, Has(_)) == \E k \in 1..Len(line) : Has(line[k])

(* The part of the loop body below the block logic: the verdict on a line  *)
(* that the block logic has not dropped.  keep: the line joins new_lines;  *)
(* line: the line as it is appended.                                       *)
widgets_single(line) ==
    LET line2 == replace_queue_draw(line)
        stripped2 == Strip(line2)
    IN
    IF ContainsSeq(line, <<PREVIEW_CLONE>>) THEN [keep |-> FALSE, line |-> line]
    ELSE IF Some(line, HasPreviewFor) /\ Some(line, HasPreviewDotClone)
    THEN [keep |-> FALSE, line |-> line]
    ELSE IF ContainsSeq(line, <<"preview_clone.queue_draw();">>)
            /\ Strip(line) = <<"preview_clone.queue_draw();">>
    THEN [keep |-> FALSE, line |-> line]
    ELSE IF ContainsSeq(line, <<"preview_clone.queue_draw();">>) /\ stripped2 = <<>>
    THEN [keep |-> FALSE, line |-> line2]
    ELSE IF Some(line2, HasPreviewFor) /\ Some(line2, HasQueueDraw)
            /\ Some(stripped2, HasQueueDraw) /\ EndsWithSemi(stripped2[Len(stripped2)])
    THEN [keep |-> FALSE, line |-> line2]
    ELSE IF Some(line2, HasPreviewQueueDraw) /\ stripped2 = <<"preview.queue_draw();">>
    THEN [keep |-> FALSE, line |-> line2]
    ELSE [keep |-> TRUE, line |-> line2]

\* the loop body with a block state that also drops the line that ends it
widgets_line_swallows(line, inb) ==
    IF ContainsSeq(line, <<"let preview = ", "DrawingArea", "::new();">>)
    THEN [in |-> TRUE, keep |-> FALSE, line |-> line]
    ELSE IF inb /\ (Some(line, HasPreviewSet) \/ IsBlank(line))
    THEN [in |-> TRUE, keep |-> FALSE, line |-> line]
    ELSE IF inb
    THEN [in |-> FALSE, keep |-> FALSE, line |-> line]
    ELSE [in |-> FALSE, keep |-> widgets_single(line).keep,
          line |-> widgets_single(line).line]

(* One iteration of the loop over lines in block state inb.  in: the block *)
(* state afterwards.                                                       *)
widgets_line(line, inb) ==
    IF ContainsSeq(line, <<"let preview = ", "DrawingArea", "::new();">>)
    THEN [in |-> TRUE, keep |-> FALSE, line |-> line]
    ELSE IF inb /\ (Some(line, HasPreviewSet) \/ IsBlank(line))
    THEN [in |-> TRUE, keep |-> FALSE, line |-> line]
    ELSE IF inb /\ ContainsSeq(line, <<APPEND>>)
    THEN [in |-> FALSE, keep |-> FALSE, line |-> line]
    ELSE [in |-> FALSE, keep |-> widgets_single(line).keep,
          line |-> widgets_single(line).line]

RECURSIVE sub_comma_preview(_, _)
\* re.sub(r',\s*preview', '', content): the rest of the token stays
sub_comma_preview(s, k) ==
    IF k > Len(s) THEN <<>>
    ELSE LET n == SkipWs(s, k + 1) IN
         IF s[k] = "," /\ n <= Len(s) /\ StartsWithPreview(s[n])
         THEN AfterPreview(s[n]) \o sub_comma_preview(s, n + 1)
         ELSE <<s[k]>> \o sub_comma_preview(s, k + 1)

RECURSIVE LastNL(_, _, _)
\* the last '\n' of the whitespace that starts at k, or 0
LastNL(s, k, found) ==
    IF k > Len(s) \/ ~IsSpace(s[k]) THEN found
    ELSE LastNL(s, k + 1, IF s[k] = NL THEN k ELSE found)

RECURSIVE sub_preview_comma_nl(_, _)
\* re.sub(r'preview,\s*\n', '', content): the front of the token stays
sub_preview_comma_nl(s, k) ==
    IF k > Len(s) THEN <<>>
    ELSE IF EndsWithPreview(s[k]) /\ k + 1 <= Len(s) /\ s[k + 1] = ","
            /\ LastNL(s, k + 2, 0) # 0
         THEN BeforePreview(s[k]) \o sub_preview_comma_nl(s, LastNL(s, k + 2, 0) + 1)
         ELSE <<s[k]>> \o sub_preview_comma_nl(s, k + 1)

RECURSIVE sub_field_init_nl(_, _)
\* re.sub(r'preview:\s*preview,\s*\n', '', content)
sub_field_init_nl(s, k) ==
    IF k > Len(s) THEN <<>>
    ELSE LET n == SkipWs(s, k + 1) IN
         IF s[k] = "preview:" /\ n + 1 <= Len(s) /\ s[n] = "preview" /\ s[n + 1] = ","
            /\ LastNL(s, n + 2, 0) # 0
         THEN sub_field_init_nl(s, LastNL(s, n + 2, 0) + 1)
         ELSE <<s[k]>> \o sub_field_init_nl(s, k + 1)

RECURSIVE sub_first_arg(_, _)
\* re.sub(r'\(&preview,', '(', content)
sub_first_arg(s, k) ==
    IF k > Len(s) THEN <<>>
    ELSE IF EndsWithOpenParen(s[k]) /\ k + 2 <= Len(s) /\ s[k + 1] = "&preview"
            /\ s[k + 2] = ","
         THEN <<s[k]>> \o sub_first_arg(s, k + 3)
         ELSE <<s[k]>> \o sub_first_arg(s, k + 1)

RECURSIVE FirstComma(_, _)
FirstComma(s, k) == IF k > Len(s) \/ s[k] = "," THEN k ELSE FirstComma(s, k + 1)

RECURSIVE sub_spin_handler(_, _)
\* re.sub(r'SpinChangeHandler::new\(([^,]+),\s*preview\.clone\(\),',
\*        r'SpinChangeHandler::new(\1,', content)
sub_spin_handler(s, k) ==
    IF k > Len(s) THEN <<>>
    ELSE LET c == FirstComma(s, k + 1)
             n == SkipWs(s, c + 1)
         IN  IF s[k] = "SpinChangeHandler::new(" /\ c > k + 1 /\ n + 1 <= Len(s)
                /\ s[n] = "preview.clone()" /\ s[n + 1] = ","
             THEN SubSeq(s, k, c) \o sub_spin_handler(s, n + 2)
             ELSE <<s[k]>> \o sub_spin_handler(s, k + 1)

\* the substitutions of steps 3 to 7, in order
widgets_subs(s) ==
    LET a1 == re_sub(<<T({","}), Ws0, T({"preview:"}), Ws0, T({"preview.clone()"})>>,
                     <<>>, s)
        a2 == sub_comma_preview(a1, 1)
        a3 == sub_preview_comma_nl(a2, 1)
        a4 == sub_field_init_nl(a3, 1)
        b1 == re_sub(<<T({","}), Ws0, T({"&preview"}), T({")"})>>, <<")">>, a4)
        b2 == sub_first_arg(b1, 1)
        b3 == re_sub(<<T({","}), Ws0, T({"&preview"}), T({","})>>, <<",">>, b2)
        c1 == re_sub(<<T({","}), Ws0, T({"preview:"}), Ws0, T({"&DrawingArea"})>>,
                     <<>>, b3)
        c2 == re_sub(<<T({"preview:"}), Ws0, T({"&DrawingArea"}), T({","}), Ws0>>,
                     <<>>, c1)
        d1 == sub_spin_handler(c2, 1)
    IN  re_sub(<<Ws0, T({"self.preview.queue_draw();"}), Opt({NL})>>, <<NL>>, d1)

\* ---------------------------------------------------------------- inputs
MaxLines == 3

L_OPEN == <<IND, OPENER, "{", NL>>
L_CLOSE == <<IND, "}", ")", ";", NL>>
L_END == <<IND, "}", NL>>
L_STMT == <<IND, "x", ";", NL>>
L_BLANK == <<NL>>
L_SETUP_OPEN == <<IND, SETUP, "{", NL>>
L_GTK == <<"use", SP, "gtk4::", "{", "Box", ",", SP, "DrawingArea", "}", ";", NL>>
L_GTK_EXT == <<"use", SP, "gtk4::", DA_EXT, ";", NL>>
L_CC == <<IND, CONFIG_CLONE, NL>>
L_PCLONE == <<IND, PREVIEW_CLONE, NL>>
L_DRAWCALL == <<IND, DRAWCALL, "x", ")", ";", NL>>
L_ARG == <<IND, "&preview", ",", NL>>
L_USE2 == <<"use", SP, "crate::ui::", "{", "render_bar", ",", SP, "render_arc", "}", ";", NL>>
L_USE1 == <<"use", SP, "crate::ui::", "render_bar", ";", NL>>
L_USE_SPD ==
    <<"use", SP, "crate::ui::", "{", "render_speedometer_with_theme", ",", SP,
      "render_arc", "}", ";", NL>>
L_CALL_ARC == <<IND, "render_arc", "(", ")", ";", NL>>
L_CALL_SPD == <<IND, "render_speedometer_with_theme", "(", ")", ";", NL>>
L_BLOCK1 == <<IND, OPENER, "{", SP, "render_bar", "(", ")", ";", SP, "}", ")", ";", NL>>

\* lines around a set_draw_func block
TrackerLines == {L_OPEN, L_CLOSE, L_END, L_STMT, L_BLANK, L_SETUP_OPEN, L_GTK, L_CC}
\* import statements and uses of the imported functions
ImportLines == {L_USE2, L_USE1, L_USE_SPD, L_CALL_ARC, L_CALL_SPD, L_BLOCK1, L_STMT}
\* blank-line layout, bindings and arguments
LayoutLines == {L_STMT, L_BLANK, L_GTK_EXT, L_CC, L_PCLONE, L_DRAWCALL, L_ARG}

FilesOver(alphabet) == UNION {[1..n -> alphabet] : n \in 0..MaxLines}

\* a two-line block, the lines before it and a later use of the binding
MaxPrefix == 4
L_REF == <<IND, "drop", "(", "config_clone", ")", ";", NL>>
PrefixLines == {L_CC, L_BLANK, L_STMT}
BlockFiles ==
    {p \o <<L_OPEN, L_CLOSE>> \o t :
        p \in UNION {[1..n -> PrefixLines] : n \in 0..MaxPrefix},
        t \in {<<>>, <<L_REF>>}}

\* imports with a single symbol, and calls that pass the preview
L_GTK1 == <<"use", SP, "gtk4::", "DrawingArea", ";", NL>>
L_GTK_B == <<"use", SP, "gtk4::", "{", "DrawingArea", "}", ";", NL>>
L_USE_TC == <<"use", SP, "crate::ui::", "{", "render_bar", ",", "}", ";", NL>>
L_SOLE == <<IND, "update", "(", "&preview", ")", ";", NL>>
SurgeryLines == {L_GTK1, L_GTK_B, L_USE_TC, L_SOLE, L_STMT}

Files ==
    FilesOver(TrackerLines) \cup FilesOver(ImportLines) \cup FilesOver(LayoutLines)
    \cup FilesOver(SurgeryLines) \cup BlockFiles

Scripts == {ALL_PREVIEWS, DRAW_FUNCS, CLEANUP}

\* the files of a batch: a preview widget's struct field, creation, setup and uses
L_FIELD == <<IND, "preview:", SP, "DrawingArea", ",", NL>>
L_CREATE == <<IND, "let preview = ", "DrawingArea", "::new();", NL>>
L_SETUP == <<IND, SETUP, "x", ")", ";", NL>>
L_APPEND == <<IND, APPEND, NL>>
L_CALL2 == <<IND, "update", "(", "x", ",", SP, "&preview", ")", ";", NL>>
BatchContents ==
    {Concat(<<L_STMT>>),
     Concat(<<L_OPEN, L_CLOSE, L_STMT>>),
     Concat(<<L_CREATE, L_SETUP, L_APPEND, L_STMT>>),
     Concat(<<L_USE2, L_CALL_ARC>>),
     Concat(<<L_FIELD, L_PCLONE, L_CALL2>>),
     Concat(<<L_CREATE, L_STMT, L_APPEND>>),
     Concat(<<L_CREATE, L_SETUP, L_BLANK, L_STMT>>),
     Concat(<<L_CREATE, L_BLANK, L_PCLONE, L_STMT>>)}

ARC_PATH == "src/ui/arc_config_widget.rs"
CORE_BARS_PATH == "src/ui/core_bars_config_widget.rs"

\* the number of paths of a batch
MaxBatch == 2

\* CONFIG_WIDGETS, the first four of its fifteen paths
CONFIG_WIDGETS == <<BAR_PATH, ARC_PATH, CORE_BARS_PATH, SPEEDOMETER_PATH>>

\* the paths that can be given on the command line, in sorted() order
ArgPaths == <<ARC_PATH, BAR_PATH, CORE_BARS_PATH, SPEEDOMETER_PATH>>

RECURSIVE sorted(_, _)
\* sorted(files), from the k-th path of the order on
sorted(files, k) ==
    IF k > Len(ArgPaths) THEN <<>>
    ELSE IF ArgPaths[k] \in files THEN <<ArgPaths[k]>> \o sorted(files, k + 1)
    ELSE sorted(files, k + 1)

\* os.path.basename(filepath)
basename(path) ==
    CASE path = ARC_PATH -> "arc_config_widget.rs"
      [] path = BAR_PATH -> "bar_config_widget.rs"
      [] path = CORE_BARS_PATH -> "core_bars_config_widget.rs"
      [] path = SPEEDOMETER_PATH -> "speedometer_config_widget.rs"

\* a path of the batch: no file, or a file with its content
NoFile == [exists |-> FALSE, content |-> <<>>]
FileWith(c) == [exists |-> TRUE, content |-> c]

\* --------------------------------------------------------------- actions
NoReturn == [modified |-> FALSE, changes |-> {}]

Init ==
    /\ script \in Scripts
    /\ filepath \in (IF script = CLEANUP THEN {SPEEDOMETER_PATH, BAR_PATH} ELSE {BAR_PATH})
    /\ \E f \in Files : disk = Concat(f)
    /\ run = 1
    /\ pc = "read"
    /\ original = <<>>
    /\ lines = <<>>
    /\ i = 1
    /\ in_set_draw_func = FALSE
    /\ paren_count = 0
    /\ brace_count = 0
    /\ lines_to_remove = {}
    /\ changes = <<>>
    /\ new_lines = <<>>
    /\ result_lines = <<>>
    /\ content = <<>>
    /\ ret = NoReturn
    /\ writes = 0
    /\ first_out = <<>>
    /\ opened_at = 0
    /\ in_preview_block = FALSE
    /\ queue = <<>>
    /\ fs = <<>>
    /\ fs0 = <<>>
    /\ out = <<>>
    /\ total_modified = 0
    /\ io = <<>>

\* with open(filepath, 'r'): the read and the initialisation of the locals
Read ==
    /\ pc = "read"
    /\ original' = disk
    /\ lines' = IF script = CLEANUP THEN <<>> ELSE readlines(disk)
    /\ content' = IF script = CLEANUP THEN disk ELSE <<>>
    /\ i' = 1
    /\ in_set_draw_func' = FALSE
    /\ paren_count' = 0
    /\ brace_count' = 0
    /\ lines_to_remove' = {}
    /\ changes' = <<>>
    /\ new_lines' = <<>>
    /\ result_lines' = <<>>
    /\ ret' = NoReturn
    /\ writes' = 0
    /\ opened_at' = 0
    /\ pc' = IF script = CLEANUP THEN "patterns" ELSE "classify"
    /\ UNCHANGED <<script, filepath, disk, run, first_out>>
    /\ io' = Append(io, "read")
    /\ UNCHANGED main_vars

\* remove_all_previews: one iteration of for i, line in enumerate(lines)
AllPreviewsClassify ==
    /\ script = ALL_PREVIEWS /\ pc = "classify" /\ i <= Len(lines)
    /\ LET r == all_previews_line(lines, i, in_set_draw_func, paren_count, brace_count) IN
        /\ in_set_draw_func' = r.in
        /\ paren_count' = r.paren
        /\ brace_count' = r.brace
        /\ lines_to_remove' = IF r.remove THEN lines_to_remove \cup {i} ELSE lines_to_remove
        /\ lines' = [lines EXCEPT ![i] = r.line]
        /\ changes' = changes \o r.change
        /\ opened_at' = IF r.opens /\ ~in_set_draw_func THEN i ELSE opened_at
    /\ i' = i + 1
    /\ UNCHANGED <<script, filepath, disk, run, pc, original, new_lines, result_lines,
                   content, ret, writes, first_out>>
    /\ UNCHANGED <<main_vars, io>>

\* remove_all_previews: the loop that builds new_lines
AllPreviewsRewrite ==
    /\ script = ALL_PREVIEWS /\ pc = "classify" /\ i > Len(lines)
    /\ new_lines' = rewrite_lines(lines, lines_to_remove, 1)
    /\ pc' = "normalize"
    /\ UNCHANGED <<script, filepath, disk, run, original, lines, i, in_set_draw_func,
                   paren_count, brace_count, lines_to_remove, changes, result_lines,
                   content, ret, writes, first_out, opened_at>>
    /\ UNCHANGED <<main_vars, io>>

\* remove_all_previews: the loop that builds result_lines, and the join
AllPreviewsNormalize ==
    /\ script = ALL_PREVIEWS /\ pc = "normalize"
    /\ result_lines' = collapse_blank_lines(new_lines, FALSE)
    /\ content' = Concat(collapse_blank_lines(new_lines, FALSE))
    /\ pc' = "prune"
    /\ UNCHANGED <<script, filepath, disk, run, original, lines, i, in_set_draw_func,
                   paren_count, brace_count, lines_to_remove, changes, new_lines,
                   ret, writes, first_out, opened_at>>
    /\ UNCHANGED <<main_vars, io>>

\* both scripts: the loop over render_fns
PruneImports ==
    /\ script \in {ALL_PREVIEWS, DRAW_FUNCS} /\ pc = "prune"
    /\ LET st == prune_imports(render_fns, 1, [content |-> content, changes |-> changes]) IN
        /\ content' = st.content
        /\ changes' = st.changes
    /\ pc' = IF script = ALL_PREVIEWS THEN "compare" ELSE "normalize"
    /\ UNCHANGED <<script, filepath, disk, run, original, lines, i, in_set_draw_func,
                   paren_count, brace_count, lines_to_remove, new_lines, result_lines,
                   ret, writes, first_out, opened_at>>
    /\ UNCHANGED <<main_vars, io>>

\* remove_preview_draw_funcs: one iteration of for i, line in enumerate(lines)
DrawFuncsClassify ==
    /\ script = DRAW_FUNCS /\ pc = "classify" /\ i <= Len(lines)
    /\ LET r == draw_funcs_line(lines, i, in_set_draw_func, paren_count, brace_count) IN
        /\ in_set_draw_func' = r.in
        /\ paren_count' = r.paren
        /\ brace_count' = r.brace
        /\ lines_to_remove' = lines_to_remove \cup r.remove
        /\ changes' = changes \o r.change
        /\ opened_at' = IF is_opener(lines[i]) /\ ~in_set_draw_func THEN i ELSE opened_at
    /\ i' = i + 1
    /\ UNCHANGED <<script, filepath, disk, run, pc, original, lines, new_lines,
                   result_lines, content, ret, writes, first_out>>
    /\ UNCHANGED <<main_vars, io>>

\* the file already rewritten with the filtered lines, ahead of the later passes
DrawFuncsBuildAndWrite ==
    /\ script = DRAW_FUNCS /\ pc = "classify" /\ i > Len(lines)
    /\ LET kept == keep_lines(lines, lines_to_remove, 1)
           c == remove_checkerboard(Concat(kept))
       IN  /\ new_lines' = kept
           /\ content' = c
           /\ disk' = c
           /\ changes' = IF c # Concat(kept)
                         THEN Append(changes, "Removed render_checkerboard import")
                         ELSE changes
    /\ io' = Append(io, "write")
    /\ writes' = writes + 1
    /\ pc' = "prune"
    /\ UNCHANGED <<script, filepath, run, original, lines, i, in_set_draw_func,
                   paren_count, brace_count, lines_to_remove, result_lines, ret,
                   first_out, opened_at, main_vars>>

\* remove_preview_draw_funcs: new_lines, the join, the render_checkerboard import
DrawFuncsBuild ==
    /\ script = DRAW_FUNCS /\ pc = "classify" /\ i > Len(lines)
    /\ LET kept == keep_lines(lines, lines_to_remove, 1)
           c == remove_checkerboard(Concat(kept))
       IN  /\ new_lines' = kept
           /\ content' = c
           /\ changes' = IF c # Concat(kept)
                         THEN Append(changes, "Removed render_checkerboard import")
                         ELSE changes
    /\ pc' = "prune"
    /\ UNCHANGED <<script, filepath, disk, run, original, lines, i, in_set_draw_func,
                   paren_count, brace_count, lines_to_remove, result_lines, ret,
                   writes, first_out, opened_at>>
    /\ UNCHANGED <<main_vars, io>>

\* cleanup_unused: for pattern, replacement, msg in patterns
CleanupPatterns ==
    /\ script = CLEANUP /\ pc = "patterns"
    /\ LET st == apply_patterns(patterns, 1, [content |-> content, changes |-> changes]) IN
        /\ content' = st.content
        /\ changes' = st.changes
    /\ pc' = "imports"
    /\ UNCHANGED <<script, filepath, disk, run, original, lines, i, in_set_draw_func,
                   paren_count, brace_count, lines_to_remove, new_lines, result_lines,
                   ret, writes, first_out, opened_at>>
    /\ UNCHANGED <<main_vars, io>>

\* cleanup_unused: the file-specific import removals
CleanupImports ==
    /\ script = CLEANUP /\ pc = "imports"
    /\ LET st == file_imports(filepath, [content |-> content, changes |-> changes]) IN
        /\ content' = st.content
        /\ changes' = st.changes
    /\ pc' = "normalize"
    /\ UNCHANGED <<script, filepath, disk, run, original, lines, i, in_set_draw_func,
                   paren_count, brace_count, lines_to_remove, new_lines, result_lines,
                   ret, writes, first_out, opened_at>>
    /\ UNCHANGED <<main_vars, io>>

\* remove_preview_draw_funcs and cleanup_unused: re.sub(r'\n\n\n+', '\n\n', content)
CollapseNewlines ==
    /\ script \in {DRAW_FUNCS, CLEANUP} /\ pc = "normalize"
    /\ content' = collapse_newlines(content)
    /\ pc' = "compare"
    /\ UNCHANGED <<script, filepath, disk, run, original, lines, i, in_set_draw_func,
                   paren_count, brace_count, lines_to_remove, changes, new_lines,
                   result_lines, ret, writes, first_out, opened_at>>
    /\ UNCHANGED <<main_vars, io>>

\* all scripts: if content != original: write, return True, changes; else False, []
WriteBack ==
    /\ pc = "compare"
    /\ IF differs(content, original)
       THEN /\ disk' = content
            /\ writes' = writes + 1
            /\ io' = Append(io, "write")
            /\ ret' = [modified |-> TRUE, changes |-> Range(changes)]
       ELSE /\ ret' = NoReturn
            /\ UNCHANGED <<disk, writes, io>>
    /\ pc' = "done"
    /\ UNCHANGED <<script, filepath, run, original, lines, i, in_set_draw_func,
                   paren_count, brace_count, lines_to_remove, changes, new_lines,
                   result_lines, content, first_out, opened_at>>
    /\ UNCHANGED main_vars

\* the script is run again on the file it has just processed
Rerun ==
    /\ pc = "done" /\ run = 1
    /\ run' = 2
    /\ first_out' = disk
    /\ pc' = "read"
    /\ UNCHANGED <<script, filepath, disk, original, lines, i, in_set_draw_func,
                   paren_count, brace_count, lines_to_remove, changes, new_lines,
                   result_lines, content, ret, writes, opened_at>>
    /\ io' = <<>>
    /\ UNCHANGED main_vars

\* ------------------------------------------------------- main(): a batch
BatchScripts == {ALL_PREVIEWS, DRAW_FUNCS, WIDGETS}

BatchInit ==
    /\ script \in BatchScripts
    /\ \E files \in SUBSET Range(ArgPaths) :
          /\ files # {} /\ Cardinality(files) <= MaxBatch
          /\ queue = IF script = WIDGETS
                     THEN SubSeq(CONFIG_WIDGETS, 1, Cardinality(files))
                     ELSE sorted(files, 1)
    /\ fs \in [Range(queue) -> {NoFile} \cup {FileWith(c) : c \in BatchContents}]
    /\ fs0 = fs
    /\ out = <<>>
    /\ total_modified = 0
    /\ filepath = ""
    /\ disk = <<>>
    /\ run = 1
    /\ pc = "main"
    /\ original = <<>>
    /\ lines = <<>>
    /\ i = 1
    /\ in_set_draw_func = FALSE
    /\ paren_count = 0
    /\ brace_count = 0
    /\ lines_to_remove = {}
    /\ changes = <<>>
    /\ new_lines = <<>>
    /\ result_lines = <<>>
    /\ content = <<>>
    /\ ret = NoReturn
    /\ writes = 0
    /\ first_out = <<>>
    /\ opened_at = 0
    /\ in_preview_block = FALSE
    /\ io = <<>>

\* the loop left at the first missing path: break in the place of continue
MainNextAborts ==
    /\ script \in {ALL_PREVIEWS, DRAW_FUNCS} /\ pc = "main" /\ queue # <<>>
    /\ IF ~fs[Head(queue)].exists
       THEN /\ out' = Append(out, [msg |-> "File not found", file |-> Head(queue),
                                   changes |-> {}])
            /\ queue' = <<>>
            /\ UNCHANGED <<filepath, disk, pc, io>>
       ELSE /\ filepath' = Head(queue)
            /\ disk' = fs[Head(queue)].content
            /\ queue' = Tail(queue)
            /\ pc' = "read"
            /\ io' = <<>>
            /\ out' = out
    /\ UNCHANGED <<script, run, original, lines, i, in_set_draw_func, paren_count,
                   brace_count, lines_to_remove, changes, new_lines, result_lines,
                   content, ret, writes, first_out, opened_at, fs0, in_preview_block, fs,
                   total_modified>>

\* the two main loops with an existence test: for filepath in sorted(files)
MainNext ==
    /\ script \in {ALL_PREVIEWS, DRAW_FUNCS} /\ pc = "main" /\ queue # <<>>
    /\ queue' = Tail(queue)
    /\ IF ~fs[Head(queue)].exists
       THEN /\ out' = Append(out, [msg |-> "File not found", file |-> Head(queue),
                                   changes |-> {}])
            /\ UNCHANGED <<filepath, disk, pc, io>>
       ELSE /\ filepath' = Head(queue)
            /\ disk' = fs[Head(queue)].content
            /\ pc' = "read"
            /\ io' = <<>>
            /\ out' = out
    /\ UNCHANGED <<script, run, original, lines, i, in_set_draw_func, paren_count,
                   brace_count, lines_to_remove, changes, new_lines, result_lines,
                   content, ret, writes, first_out, opened_at, fs0, in_preview_block, fs,
                   total_modified>>

\* the two main loops: the report on the file that has been processed
MainReport ==
    /\ script \in {ALL_PREVIEWS, DRAW_FUNCS} /\ pc = "done"
    /\ fs' = [fs EXCEPT ![filepath] = FileWith(disk)]
    /\ out' = Append(out, [msg |-> IF ret.modified THEN "Modified" ELSE "No changes",
                           file |-> basename(filepath), changes |-> ret.changes])
    /\ total_modified' = IF ret.modified THEN total_modified + 1 ELSE total_modified
    /\ pc' = "main"
    /\ UNCHANGED <<script, filepath, disk, run, original, lines, i, in_set_draw_func,
                   paren_count, brace_count, lines_to_remove, changes, new_lines,
                   result_lines, content, ret, writes, first_out, opened_at, fs0,
                   in_preview_block, queue, io>>

\* all main loops: the lines printed after the loop
MainEnd ==
    /\ pc = "main" /\ queue = <<>>
    /\ out' = Append(out, IF script = WIDGETS
                          THEN [msg |-> "Done!", file |-> "", changes |-> {}]
                          ELSE [msg |-> "Total files modified", file |-> "",
                                changes |-> {total_modified}])
    /\ pc' = "exit"
    /\ UNCHANGED <<script, filepath, disk, run, original, lines, i, in_set_draw_func,
                   paren_count, brace_count, lines_to_remove, changes, new_lines,
                   result_lines, content, ret, writes, first_out, opened_at, fs0,
                   in_preview_block, queue, fs, total_modified, io>>

\* remove_preview_widgets: the loop of main and the existence test of the function
WidgetsCall ==
    /\ script = WIDGETS /\ pc = "main" /\ queue # <<>>
    /\ queue' = Tail(queue)
    /\ IF ~fs[Head(queue)].exists
       THEN /\ out' = Append(out, [msg |-> "Skipping - file not found",
                                   file |-> Head(queue), changes |-> {}])
            /\ UNCHANGED <<filepath, disk, pc, io>>
       ELSE /\ filepath' = Head(queue)
            /\ disk' = fs[Head(queue)].content
            /\ pc' = "wread"
            /\ io' = <<>>
            /\ out' = out
    /\ UNCHANGED <<script, run, original, lines, i, in_set_draw_func, paren_count,
                   brace_count, lines_to_remove, changes, new_lines, result_lines,
                   content, ret, writes, first_out, opened_at, fs0, in_preview_block, fs,
                   total_modified>>

\* remove_preview_widgets: the read, step 1 and the split into lines
WidgetsRead ==
    /\ script = WIDGETS /\ pc = "wread"
    /\ original' = disk
    /\ io' = Append(io, "read")
    /\ content' = remove_field(disk)
    /\ lines' = SplitNL(remove_field(disk), <<>>)
    /\ new_lines' = <<>>
    /\ in_preview_block' = FALSE
    /\ i' = 1
    /\ pc' = "wlines"
    /\ UNCHANGED <<script, filepath, disk, run, in_set_draw_func, paren_count,
                   brace_count, lines_to_remove, changes, result_lines, ret, writes,
                   first_out, opened_at, fs0, queue, fs, out, total_modified>>

\* remove_preview_widgets: one iteration of for i, line in enumerate(lines)
WidgetsLine ==
    /\ script = WIDGETS /\ pc = "wlines" /\ i <= Len(lines)
    /\ LET r == widgets_line(lines[i], in_preview_block) IN
        /\ in_preview_block' = r.in
        /\ new_lines' = IF r.keep THEN Append(new_lines, r.line) ELSE new_lines
    /\ i' = i + 1
    /\ UNCHANGED <<script, filepath, disk, run, pc, original, lines, in_set_draw_func,
                   paren_count, brace_count, lines_to_remove, changes, result_lines,
                   content, ret, writes, first_out, opened_at, fs0, queue, fs, out,
                   total_modified, io>>

\* remove_preview_widgets: the join and the substitutions of steps 3 to 7
WidgetsSubs ==
    /\ script = WIDGETS /\ pc = "wlines" /\ i > Len(lines)
    /\ content' = widgets_subs(JoinNL(new_lines))
    /\ pc' = "wwrite"
    /\ UNCHANGED <<script, filepath, disk, run, original, lines, i, in_set_draw_func,
                   paren_count, brace_count, lines_to_remove, changes, new_lines,
                   result_lines, ret, writes, first_out, opened_at, main_vars, io>>

\* remove_preview_widgets: if content != original: write and report
WidgetsWrite ==
    /\ script = WIDGETS /\ pc = "wwrite"
    /\ IF differs(content, original)
       THEN /\ disk' = content
            /\ writes' = writes + 1
            /\ io' = Append(io, "write")
            /\ fs' = [fs EXCEPT ![filepath] = FileWith(content)]
            /\ out' = Append(out, [msg |-> "Modified", file |-> filepath, changes |-> {}])
       ELSE /\ out' = Append(out, [msg |-> "No changes to", file |-> filepath,
                                   changes |-> {}])
            /\ UNCHANGED <<disk, writes, io, fs>>
    /\ pc' = "main"
    /\ UNCHANGED <<script, filepath, run, original, lines, i, in_set_draw_func,
                   paren_count, brace_count, lines_to_remove, changes, new_lines,
                   result_lines, content, ret, first_out, opened_at, fs0, in_preview_block,
                   queue, total_modified>>

BatchNext ==
    \/ MainNext
    \/ Read
    \/ AllPreviewsClassify
    \/ AllPreviewsRewrite
    \/ AllPreviewsNormalize
    \/ PruneImports
    \/ DrawFuncsClassify
    \/ DrawFuncsBuild
    \/ CollapseNewlines
    \/ WriteBack
    \/ MainReport
    \/ WidgetsCall
    \/ WidgetsRead
    \/ WidgetsLine
    \/ WidgetsSubs
    \/ WidgetsWrite
    \/ MainEnd

BatchSpec == BatchInit /\ [][BatchNext]_vars

Next ==
    \/ Read
    \/ AllPreviewsClassify
    \/ AllPreviewsRewrite
    \/ AllPreviewsNormalize
    \/ PruneImports
    \/ DrawFuncsClassify
    \/ DrawFuncsBuild
    \/ CleanupPatterns
    \/ CleanupImports
    \/ CollapseNewlines
    \/ WriteBack
    \/ Rerun

Spec == Init /\ [][Next]_vars

\* ------------------------------------------------ vocabulary of the claims
\* the lines of the file as it was read
SrcLines == readlines(original)

RECURSIVE SumLines(_, _, _, _)
SumLines(F(_), ls, a, b) == IF a > b THEN 0 ELSE F(ls[a]) + SumLines(F, ls, a + 1, b)

\* the delimiter balance of the source lines a..b
CumParen(a, b) == SumLines(ParenBalance, SrcLines, a, b)
CumBrace(a, b) == SumLines(BraceBalance, SrcLines, a, b)

\* the two scripts that have a block extent tracker
HasTracker == script \in {ALL_PREVIEWS, DRAW_FUNCS}

\* a token no removal pattern looks for
Neutral(t) == t \in {NL, IND, SP, "x", ";", "(", ")", "{", "}"}
NeutralText(s) == \A k \in 1..Len(s) : Neutral(s[k])

\* k is inside a Rust import statement of s: a `use` that starts a line, up to its ';'
StartsStatement(s, k) ==
    s[k] = "use" /\ \A q \in 1..(k - 1) : (\A r \in q..(k - 1) : s[r] # NL) => IsSpace(s[q])
InImport(s, k) ==
    \E u \in 1..(k - 1) : StartsStatement(s, u) /\ \A q \in u..(k - 1) : ~HasSemi(s[q])
ImportEntries(s, sym) == Cardinality({k \in 1..Len(s) : s[k] = sym /\ InImport(s, k)})
OutsideUses(s, sym) == Cardinality({k \in 1..Len(s) : s[k] = sym /\ ~InImport(s, k)})

\* the symbols whose imports the scripts prune
TrackedSymbols ==
    Range(render_fns) \cup {"render_speedometer_with_theme", "render_content_background"}

\* no two consecutive blank lines
NoBlankRun(ls) == \A k \in 1..(Len(ls) - 1) : ~(IsBlank(ls[k]) /\ IsBlank(ls[k + 1]))

\* the blank-line normalizer of the running script has run
Normalized ==
    \/ script = ALL_PREVIEWS /\ pc \in {"prune", "compare", "done"}
    \/ script # ALL_PREVIEWS /\ pc \in {"compare", "done"}

\* ------------------------------------------------------------------ claims
(* C1: once an opener has been seen, the tracker is InBlock after every    *)
(* line as long as the cumulative parenthesis balance or the cumulative    *)
(* brace balance since the opener has stayed > 0; it leaves InBlock only   *)
(* after a line at which both are <= 0.                                    *)
C1_StaysInBlockWhileOpen ==
    (HasTracker /\ pc = "classify" /\ opened_at > 0
     /\ \A m \in opened_at..(i - 1) :
            CumParen(opened_at, m) > 0 \/ CumBrace(opened_at, m) > 0)
    => in_set_draw_func

(* C2: when the end of the file is reached while InBlock, the tracker      *)
(* stops removing: the lines that follow the opener are kept.              *)
C2_UnterminatedBlockKept ==
    (HasTracker /\ pc = "done" /\ in_set_draw_func /\ opened_at > 0
     /\ (CumParen(opened_at, Len(SrcLines)) > 0 \/ CumBrace(opened_at, Len(SrcLines)) > 0))
    => \A k \in (opened_at + 1)..Len(SrcLines) :
           NeutralText(SrcLines[k]) => k \notin lines_to_remove

(* C3: while InBlock, every line is marked for removal and adds its own    *)
(* delimiter balance to the two counters, whatever else the line matches.  *)
C3_InBlockLineCounted ==
    [][(HasTracker /\ pc = "classify" /\ i <= Len(lines) /\ in_set_draw_func)
       => (/\ i \in lines_to_remove'
           /\ paren_count' = paren_count + ParenBalance(lines[i])
           /\ brace_count' = brace_count + BraceBalance(lines[i]))]_vars

(* C4: a file with none of the removal patterns is returned byte-identical *)
(* with modified = false and no changes, whatever its blank-line layout.   *)
C4_NoMatchUntouched ==
    (pc = "done" /\ NeutralText(original))
    => (ret = NoReturn /\ disk = original /\ writes = 0)

(* C5: the transform is idempotent: run on its own output it produces the  *)
(* same content and reports modified = false with no changes.              *)
C5_Idempotent ==
    (pc = "done" /\ run = 2)
    => (disk = first_out /\ ret = NoReturn /\ writes = 0)

(* C6: import pruning never removes a tracked symbol's import entry while  *)
(* the symbol is still referenced outside import statements.               *)
C6_ImportSoundness ==
    [][(pc \in {"prune", "imports"})
       => (\A sym \in TrackedSymbols :
              (ImportEntries(content', sym) < ImportEntries(content, sym))
              => (OutsideUses(content', sym) = 0))]_vars

(* C7: a watch-list symbol that occurs only inside import statements when  *)
(* the pruner runs no longer occurs after it, wherever it sits in the      *)
(* import list.                                                            *)
C7_ImportOnlySymbolPruned ==
    [][(pc = "prune")
       => (\A sym \in Range(render_fns) :
              (ImportEntries(content, sym) > 0 /\ OutsideUses(content, sym) = 0)
              => (all_matches(content', sym) = 0))]_vars

(* C8: the driver writes and returns (true, changes) exactly when the      *)
(* final content differs from the original; otherwise it writes nothing    *)
(* and returns (false, []), even when changes were collected.              *)
C8_WriteIffDifferent ==
    pc = "done"
    => (/\ ret.modified <=> (content # original)
        /\ ret.modified => (writes = 1 /\ disk = content /\ ret.changes = Range(changes))
        /\ ~ret.modified => (writes = 0 /\ disk = original /\ ret.changes = {}))

\* C8: a run that collected changes, left the content as it was and returned (false, [])
C8_Witness == pc = "done" /\ changes # <<>> /\ content = original /\ ret = NoReturn

(* C9: after the normalizer has run the content has no two consecutive     *)
(* blank lines.                                                            *)
C9_NoBlankRunAfterNormalizer ==
    ((script = ALL_PREVIEWS /\ pc = "prune") \/ (script = DRAW_FUNCS /\ pc = "compare"))
    => NoBlankRun(readlines(content))

(* C10: the normalizer is the last content-changing pass: once it has run, *)
(* no pass changes the content.                                            *)
C10_NormalizerLast == [][Normalized => (content' = content)]_vars

\* ------------------------------------------- vocabulary of the later claims
\* a line that holds nothing but a setup-only binding
IsBinding(line) == Strip(line) \in {<<CONFIG_CLONE>>, <<THEME_CLONE>>}

\* the first line of the file as read that holds the block opener, or 0
FirstOpener ==
    LET openers == {k \in 1..Len(SrcLines) : is_opener(SrcLines[k])}
    IN  IF openers = {} THEN 0 ELSE CHOOSE k \in openers : \A m \in openers : k <= m

\* every line strictly between j and k is blank or another binding
OnlyBindingsBetween(j, k) ==
    \A m \in (j + 1)..(k - 1) : IsBlank(SrcLines[m]) \/ IsBinding(SrcLines[m])

(* C11: a binding line j ahead of the first opener (line k) is removed     *)
(* exactly when k - 3 <= j < k and every line between them is blank or     *)
(* another binding; without an opener no binding is removed.               *)
C11_LookbackExact ==
    (HasTracker /\ pc = "done")
    => (\A j \in 1..Len(SrcLines) :
           (IsBinding(SrcLines[j]) /\ (FirstOpener = 0 \/ j < FirstOpener))
           => ((j \in lines_to_remove)
               <=> (FirstOpener # 0 /\ FirstOpener - j <= 3
                    /\ OnlyBindingsBetween(j, FirstOpener))))

\* the setup-only bindings the scripts remove, and the names they bind
SetupBindings ==
    {[tok |-> CONFIG_CLONE, name |-> "config_clone"],
     [tok |-> THEME_CLONE, name |-> "theme_clone"],
     [tok |-> CONFIG_FOR_PREVIEW, name |-> "config_for_preview"],
     [tok |-> THEME_FOR_PREVIEW, name |-> "theme_for_preview"]}

\* how often the token t occurs in the text s
Occurrences(s, t) == Cardinality({k \in 1..Len(s) : s[k] = t})

(* C12: a setup-only binding is removed only when no line of the output    *)
(* still refers to the name it binds.                                      *)
C12_BindingRemovedOnlyIfUnused ==
    (pc = "done")
    => (\A b \in SetupBindings :
           (Occurrences(disk, b.tok) < Occurrences(original, b.tok))
           => (Occurrences(disk, b.name) = 0))

\* the import statement that starts at k has no symbol left in its list
EmptyImportAt(s, k) ==
    /\ StartsStatement(s, k)
    /\ FirstSemi(s, k) <= Len(s)
    /\ \A q \in (k + 1)..(FirstSemi(s, k) - 1) :
           IsSpace(s[q]) \/ s[q] \in {"gtk4::", "crate::ui::", "{", "}", ","}
    /\ s[FirstSemi(s, k)] = ";"

HasEmptyImport(s) == \E k \in 1..Len(s) : EmptyImportAt(s, k)

(* C13: import-list surgery leaves no import statement with an empty       *)
(* symbol list: a statement whose last symbol is deleted is deleted whole. *)
C13_NoEmptyImportLeft ==
    (script = ALL_PREVIEWS /\ pc = "done" /\ ~HasEmptyImport(original))
    => ~HasEmptyImport(content)

RECURSIVE NarrowedLines(_, _, _)
\* the surviving lines after the edits, without those the edits left blank
NarrowedLines(ls, removed, k) ==
    IF k > Len(ls) THEN <<>>
    ELSE IF k \in removed THEN NarrowedLines(ls, removed, k + 1)
    ELSE IF IsBlank(rewrite_line(ls[k])) /\ ~IsBlank(ls[k])
         THEN NarrowedLines(ls, removed, k + 1)
         ELSE <<rewrite_line(ls[k])>> \o NarrowedLines(ls, removed, k + 1)

(* C14: the reference rewriter keeps every surviving line that still has   *)
(* text after the edits and drops a line the edits reduce to whitespace:   *)
(* no such line stays behind, alone or in front of the next line's text.   *)
C14_RewriterDropsEmptiedLines ==
    [][(script = ALL_PREVIEWS /\ pc = "classify" /\ i > Len(lines))
       => (new_lines' = NarrowedLines(lines, lines_to_remove, 1))]_vars

\* the token's text holds the identifier preview as a whole word
HasPreviewWord(t) ==
    t \in {OPENER, DRAWCALL, SETUP, "preview.set_content_width(", "preview.set_hexpand(",
           "preview.set_vexpand(", "preview.set_halign(", "preview.set_valign(",
           PREVIEW_CLONE, PREVIEW_CLONE_SELF, PREVIEW_FOR_PASTE, APPEND,
           "preview.queue_draw();", "self.preview.queue_draw();", "preview.clone()",
           "preview:", "preview", "&preview", "&self.preview", "let preview = "}

\* k lies behind a // of its own line
InComment(s, k) ==
    \E q \in 1..(k - 1) : s[q] = "//" /\ \A r \in q..(k - 1) : s[r] # NL

(* C15: after the transform the output holds no whole-word occurrence of   *)
(* preview outside comments.                                               *)
C15_NoPreviewLeft ==
    (script = ALL_PREVIEWS /\ pc = "done")
    => (\A k \in 1..Len(disk) : HasPreviewWord(disk[k]) => InComment(disk, k))

RECURSIVE BlockEnd(_, _)
\* the line that closes the block opened at o: the first line m, o included,
\* after which both balances are <= 0; the last line when there is none
BlockEnd(o, m) ==
    IF m >= Len(SrcLines) THEN Len(SrcLines)
    ELSE IF CumParen(o, m) <= 0 /\ CumBrace(o, m) <= 0 THEN m
    ELSE BlockEnd(o, m + 1)

RECURSIVE TrueBlocks(_)
\* the lines of the file as read, from line k on, that lie inside a block
TrueBlocks(k) ==
    IF k > Len(SrcLines) THEN {}
    ELSE IF is_opener(SrcLines[k])
         THEN (k..BlockEnd(k, k)) \cup TrueBlocks(BlockEnd(k, k) + 1)
         ELSE TrueBlocks(k + 1)

\* line k is a statement no pattern looks for, outside every block
Unrelated(k) ==
    NeutralText(SrcLines[k]) /\ ~IsBlank(SrcLines[k]) /\ k \notin TrueBlocks(1)

RECURSIVE UnrelatedFrom(_)
UnrelatedFrom(k) ==
    IF k > Len(SrcLines) THEN <<>>
    ELSE IF Unrelated(k) THEN <<SrcLines[k]>> \o UnrelatedFrom(k + 1)
    ELSE UnrelatedFrom(k + 1)

RECURSIVE IsSubseq(_, _)
\* the lines of a occur among the lines of b, in the same order
IsSubseq(a, b) ==
    IF a = <<>> THEN TRUE
    ELSE IF b = <<>> THEN FALSE
    ELSE IF Head(a) = Head(b) THEN IsSubseq(Tail(a), Tail(b))
    ELSE IsSubseq(a, Tail(b))

(* C16: every line that matches no removal pattern and lies outside every  *)
(* block is a line of the output, unchanged, and these lines keep their    *)
(* order.                                                                  *)
C16_UnrelatedLinesKept ==
    (HasTracker /\ pc = "done") => IsSubseq(UnrelatedFrom(1), readlines(disk))

(* C19: an opener met in Idle state is removed, seeds both counters with  *)
(* its own balance and is itself subject to the closing test: the tracker  *)
(* is InBlock after it only if one of the two balances is still > 0.       *)
C19_OpenerLineCanClose ==
    [][(HasTracker /\ pc = "classify" /\ i <= Len(lines) /\ ~in_set_draw_func
        /\ is_opener(lines[i]))
       => (/\ i \in lines_to_remove'
           /\ paren_count' = ParenBalance(lines[i])
           /\ brace_count' = BraceBalance(lines[i])
           /\ in_set_draw_func' = (ParenBalance(lines[i]) > 0 \/ BraceBalance(lines[i]) > 0))]_vars

(* C20: in remove_preview_draw_funcs every line that holds the opener text *)
(* is marked for removal once the loop has passed it, in Idle and InBlock  *)
(* state alike, and no such line is among the lines kept.                  *)
C20_OpenerAlwaysRemoved ==
    (script = DRAW_FUNCS /\ pc # "read")
    => (/\ \A k \in 1..Len(lines) :
              (k < i /\ is_opener(lines[k])) => (k \in lines_to_remove)
        /\ (pc # "classify") => (\A k \in 1..Len(new_lines) : ~is_opener(new_lines[k])))

\* C20: the lines have been filtered and an opener was met inside an open block
C20_Witness ==
    /\ script = DRAW_FUNCS /\ pc = "prune" /\ Len(lines) >= 2
    /\ is_opener(lines[1]) /\ ~BlockClosed(ParenBalance(lines[1]), BraceBalance(lines[1]))
    /\ is_opener(lines[2]) /\ 2 \in lines_to_remove

\* the positions of the two transforms between the read and the comparison
PassPositions == {"classify", "normalize", "prune", "compare"}

(* C17: for every file the only I/O is one read, before any pass, and at   *)
(* most one write, of the final content, after the last pass; while the    *)
(* passes run the file is as it was, so between two files of a batch every *)
(* file is either as it was when the batch started or fully transformed.   *)
C17_ReadPassesWrite ==
    (script \in {ALL_PREVIEWS, DRAW_FUNCS})
    => (/\ io \in {<<>>, <<"read">>, <<"read", "write">>}
        /\ (pc \in PassPositions)
           => (io = <<"read">> /\ disk = original /\ fs[filepath] = fs0[filepath])
        /\ (io = <<"read", "write">>)
           => (pc \in {"done", "main", "exit"} /\ disk = content)
        /\ (pc = "main")
           => (/\ \A p \in Range(queue) : fs[p] = fs0[p]
               /\ (filepath # "")
                  => (fs[filepath].content
                        = IF ret.modified THEN content ELSE fs0[filepath].content)))

\* C17: the passes run on the second file of a batch whose first file was rewritten
C17_Witness ==
    /\ script \in {ALL_PREVIEWS, DRAW_FUNCS} /\ pc = "prune" /\ io = <<"read">>
    /\ \E p \in DOMAIN fs : p # filepath /\ fs[p] # fs0[p]

\* the paths of the batch in the order main visits them
Batch ==
    IF script = WIDGETS THEN SubSeq(CONFIG_WIDGETS, 1, Cardinality(DOMAIN fs0))
    ELSE sorted(DOMAIN fs0, 1)

\* the report says that the path was not found
NotFound(e) == e.msg \in {"File not found", "Skipping - file not found"}

(* C18: main reports every path of the batch once, in order: a missing     *)
(* path as not found, and it is skipped; every other path is processed and *)
(* reported, whatever precedes it, and the loop ends only after the last.  *)
C18_MissingFileSkipped ==
    (pc \in {"main", "exit"})
    => (/\ Len(out) = Len(Batch) - Len(queue) + (IF pc = "exit" THEN 1 ELSE 0)
        /\ \A k \in 1..Len(Batch) :
              (k <= Len(out))
              => (/\ NotFound(out[k]) <=> ~fs0[Batch[k]].exists
                  /\ out[k].file \in {Batch[k], basename(Batch[k])}
                  /\ ~fs0[Batch[k]].exists => (fs[Batch[k]] = NoFile)))

\* C18: a finished batch whose first path was missing and whose second file was rewritten
C18_Witness ==
    /\ pc = "exit" /\ Len(out) >= 3
    /\ NotFound(out[1]) /\ out[2].msg = "Modified"

\* the line enters the block state: 'let preview = DrawingArea::new()'
IsCreation(line) == ContainsSeq(line, <<"let preview = ", "DrawingArea", "::new();">>)

\* a line the block state drops while it stays on
SetupOrBlank(line) == Some(line, HasPreviewSet) \/ IsBlank(line)

\* no token of the line mentions a preview
NoPreviewIn(line) ==
    \A k \in 1..Len(line) :
        /\ ~HasPreviewWord(line[k]) /\ ~HasQueueDraw(line[k])
        /\ ~HasPreviewFor(line[k]) /\ ~HasPreviewDotClone(line[k])
        /\ ~StartsWithPreview(line[k]) /\ ~EndsWithPreview(line[k])

(* C21: in remove_preview_widgets, a line met in the block state that does *)
(* not itself create the preview is dropped with the state kept if it is   *)
(* blank or contains preview.set_; otherwise the state ends at this line,  *)
(* which is dropped if it contains .append(&preview) and else is treated   *)
(* exactly as outside a block, so a statement without preview is kept.     *)
C21_BlockEndsAtFirstOtherLine ==
    [][(script = WIDGETS /\ pc = "wlines" /\ i' = i + 1
          /\ in_preview_block /\ ~IsCreation(lines[i]))
       => LET line == lines[i]
              outside == widgets_line(line, FALSE)
          IN  /\ SetupOrBlank(line)
                 => (in_preview_block' /\ new_lines' = new_lines)
              /\ (~SetupOrBlank(line) /\ ContainsSeq(line, <<APPEND>>))
                 => (~in_preview_block' /\ new_lines' = new_lines)
              /\ (~SetupOrBlank(line) /\ ~ContainsSeq(line, <<APPEND>>))
                 => (/\ ~in_preview_block'
                     /\ new_lines' = (IF outside.keep
                                      THEN Append(new_lines, outside.line)
                                      ELSE new_lines)
                     /\ NoPreviewIn(line) => (new_lines' = Append(new_lines, line)))
      ]_vars

\* C21: an unrelated statement right after the creation line has ended the block and is kept
C21_Witness ==
    /\ script = WIDGETS /\ pc = "wlines" /\ i = 3
    /\ IsCreation(lines[1])
    /\ ~SetupOrBlank(lines[2]) /\ NoPreviewIn(lines[2])
    /\ ~in_preview_block /\ new_lines = <<lines[2]>>

====
